---- MODULE Spec2Model ----
(***************************************************************************)
(* Model of the QAM signal chain of ecs301-qam: length alignment           *)
(* (upsample_signal, driven by main), quadrature modulation                *)
(* (qam_modulation) and demodulation (demodulate_signal), together with    *)
(* the pydantic models AudioFile and CarrierFrequency.                     *)
(*                                                                         *)
(* Numbers.  Samples are integers.  Carrier samples, modulated samples and *)
(* filter coefficients are fixed-point integers with Scale units per 1.0.  *)
(* A complex sample is a pair <<re, im>>.  np.cos / np.sin are modelled by *)
(* a rational approximation that is exact at multiples of a quarter turn;  *)
(* the float32 rounding of the source is not modelled.                     *)
(***************************************************************************)
EXTENDS Integers, Sequences, FiniteSets, TLC

VARIABLES pc, audio_file1, audio_file2, in1, in2, aligned, unit_in,
          carrier_freq, modulated_signal, sampling_rate, demodulated, error

vars == <<pc, audio_file1, audio_file2, in1, in2, aligned, unit_in,
          carrier_freq, modulated_signal, sampling_rate, demodulated, error>>

(***************************************************************************)
(* Bounds of the model and the input domains.                              *)
(***************************************************************************)
MaxLen == 3

Samples == {0, 1}

CarrierValues == {-1, 0, 1}

Rates == {-4, 0, 1, 2, 3}

Units == { <<"k", "H", "z">>, <<"K", "H", "Z">>, <<"M", "H", "z">>,
           <<"m", "h", "z">>, <<"H", "z">>, <<"G", "H", "z">> }

Datas == UNION { [1..n -> Samples] : n \in 0..MaxLen }

Scale == 1000

(***************************************************************************)
(* Results of calls: a returned value, or the exception that was raised    *)
(* and the call that raised it.  freq is the local variable freq of the    *)
(* modulator and the demodulator (0 when it was never bound).              *)
(***************************************************************************)
Ok(v, f) == [ok |-> TRUE, err |-> "", at |-> "", val |-> v, freq |-> f]

Raise(e, where, f) == [ok |-> FALSE, err |-> e, at |-> where, val |-> <<>>, freq |-> f]

NoResult == [ok |-> FALSE, err |-> "", at |-> "not called", val |-> <<>>, freq |-> 0]

NoCarrier == [value |-> 0, unit |-> <<>>]

Zeros(n) == [i \in 1..n |-> 0]

(***************************************************************************)
(* models.py                                                               *)
(***************************************************************************)
\* AudioFile(data=...): the validator check_data_length rejects an empty list.
\* A plain list (the other arm of Signals) is never validated.
check_data_length(v) == IF v = <<>> THEN Raise("ValueError", "check_data_length", 0)
                        ELSE Ok(v, 0)

MakeSignal(isList, data) ==
    IF isList THEN Ok([isList |-> TRUE, data |-> data], 0)
    ELSE LET r == check_data_length(data)
         IN  IF r.ok THEN Ok([isList |-> FALSE, data |-> r.val], 0) ELSE r

\* str.lower() on the characters that occur in the units
LowerChar(c) == CASE c = "K" -> "k"
                  [] c = "H" -> "h"
                  [] c = "Z" -> "z"
                  [] c = "M" -> "m"
                  [] c = "G" -> "g"
                  [] OTHER   -> c

lower(s) == [i \in 1..Len(s) |-> LowerChar(s[i])]

khz == <<"k", "h", "z">>

mhz == <<"m", "h", "z">>

\* check_unit without the final lower(): the unit is stored as it was given
check_unit_keepcase(v) == IF lower(v) \notin {khz, mhz}
                          THEN Raise("ValueError", "check_unit", 0)
                          ELSE Ok(v, 0)

\* CarrierFrequency.check_unit: accept case-insensitively, store lower-cased
check_unit(v) == IF lower(v) \notin {khz, mhz}
                 THEN Raise("ValueError", "check_unit", 0)
                 ELSE Ok(lower(v), 0)

\* CarrierFrequency(value=..., unit=...): value has no validator
CarrierFrequency(value, unit) ==
    LET u == check_unit(unit)
    IN  IF u.ok THEN Ok([value |-> value, unit |-> u.val], 0) ELSE u

(***************************************************************************)
(* numpy helpers                                                           *)
(***************************************************************************)
\* np.pad(x, (before, after), mode="constant"): negative widths raise
np_pad(x, before, after) ==
    IF before < 0 \/ after < 0 THEN Raise("ValueError", "np.pad", 0)
    ELSE Ok(Zeros(before) \o x \o Zeros(after), 0)

\* sin of p/q turns for 0 <= 2p <= q, in Scale units (exact at 0, 1/4, 1/2)
SinHalf(p, q) == (Scale * 32 * p * (q - 2 * p)) \div (5 * q * q - 8 * p * (q - 2 * p))

\* np.sin(2*pi*num/den), den > 0, in Scale units
SinPos(num, den) ==
    LET p == num % den
    IN  IF 2 * p <= den THEN SinHalf(p, den)
        ELSE 0 - SinHalf(2 * p - den, 2 * den)

\* np.sin(2*pi*num/den), den # 0
np_sin(num, den) == IF den > 0 THEN SinPos(num, den) ELSE SinPos(0 - num, 0 - den)

\* np.cos(2*pi*num/den) = sin of a quarter turn more
np_cos(num, den) == IF den > 0 THEN SinPos(4 * num + den, 4 * den)
                    ELSE SinPos(4 * (0 - num) + (0 - den), 4 * (0 - den))

\* complex product and sum on <<re, im>>
CMul(x, y) == <<x[1] * y[1] - x[2] * y[2], x[1] * y[2] + x[2] * y[1]>>

CAdd(x, y) == <<x[1] + y[1], x[2] + y[2]>>

\* numpy broadcasting of two 1-d operands under a binary operation
Broadcastable(n, m) == n = m \/ n = 1 \/ m = 1

BroadcastLen(n, m) == IF n = 1 THEN m ELSE n

BIndex(x, i) == IF Len(x) = 1 THEN x[1] ELSE x[i]

(***************************************************************************)
(* qam.py: upsample_signal                                                 *)
(***************************************************************************)
\* upsample_signal padding in front of the samples instead of behind them
upsample_signal_padfront(signal, target_length) ==
    np_pad(signal.data, target_length - Len(signal.data), 0)

upsample_signal(signal, target_length) ==
    IF signal.isList
    THEN np_pad(signal.data, 0, target_length - Len(signal.data))
    ELSE np_pad(signal.data, 0, target_length - Len(signal.data))

(***************************************************************************)
(* qam.py: qam_modulation                                                  *)
(***************************************************************************)
\* "Convert the carrier frequency to the appropriate unit": freq stays
\* unbound for any other unit, and its first use raises UnboundLocalError.
ResolveFreq(carrier) ==
    IF carrier.unit = khz THEN Ok(carrier.value * 1000, carrier.value * 1000)
    ELSE IF carrier.unit = mhz THEN Ok(carrier.value * 1000000, carrier.value * 1000000)
    ELSE Raise("UnboundLocalError", "freq", 0)

\* Signal data extraction: a list is its own data, an AudioFile has .data
SignalData(signal) == IF signal.isList THEN signal.data ELSE signal.data

\* carrier_signal_1 = np.cos(2*pi*freq*t), t[i] = i/den for i = 0..n-1
carrier_signal_1(freq, n, den) == [i \in 1..n |-> np_cos(freq * (i - 1), den)]

\* the quadrature carrier with the sign of the imaginary unit lost
carrier_signal_2_plusj(freq, n, den) ==
    [i \in 1..n |-> CMul(<<0, 1>>, <<np_sin(freq * (i - 1), den), 0>>)]

\* carrier_signal_2 = -1j * np.sin(2*pi*freq*t)
carrier_signal_2(freq, n, den) ==
    [i \in 1..n |-> CMul(<<0, -1>>, <<np_sin(freq * (i - 1), den), 0>>)]

\* real array * real array, element-wise with broadcasting
RealTimesReal(x, c) ==
    [i \in 1..BroadcastLen(Len(x), Len(c)) |-> BIndex(x, i) * BIndex(c, i)]

\* real array * complex array
RealTimesComplex(x, c) ==
    [i \in 1..BroadcastLen(Len(x), Len(c)) |-> CMul(<<BIndex(x, i), 0>>, BIndex(c, i))]

\* real array + complex array
RealPlusComplex(x, c) ==
    [i \in 1..BroadcastLen(Len(x), Len(c)) |-> CAdd(<<BIndex(x, i), 0>>, BIndex(c, i))]

qam_modulation(signal1, signal2, carrier) ==
    LET f            == ResolveFreq(carrier)
        signal1_data == SignalData(signal1)
        signal2_data == SignalData(signal2)
        n            == Len(signal1_data)
        c1           == carrier_signal_1(f.val, n, n)
        c2           == carrier_signal_2(f.val, n, n)
        m1           == RealTimesReal(signal1_data, c1)
        m2           == RealTimesComplex(signal2_data, c2)
    IN  IF ~f.ok THEN f
        ELSE IF ~Broadcastable(Len(signal2_data), n)
        THEN Raise("ValueError", "broadcast", f.val)
        ELSE IF ~Broadcastable(Len(m1), Len(m2))
        THEN Raise("ValueError", "broadcast", f.val)
        ELSE Ok(RealPlusComplex(m1, m2), f.val)

(***************************************************************************)
(* qam.py: demodulate_signal                                               *)
(***************************************************************************)
\* complex sample times a carrier sample in Scale units, kept in Scale units
MixSample(m, c) == LET z == CMul(m, c) IN <<z[1] \div Scale, z[2] \div Scale>>

MixReal(m, c) == MixSample(m, <<c, 0>>)

\* butter accepting a critical frequency of exactly 1
butter_inclusive(num, den) ==
    LET pos == (num > 0 /\ den > 0) \/ (num < 0 /\ den < 0)
        le1 == IF den > 0 THEN num <= den ELSE num >= den
        s   == np_sin(num, 4 * den)
        c   == np_cos(num, 4 * den)
    IN  IF ~(pos /\ le1) THEN Raise("ValueError", "butter", 0)
        ELSE Ok([b |-> <<(Scale * s) \div (s + c), (Scale * s) \div (s + c)>>,
                 a |-> <<Scale, (Scale * (s - c)) \div (s + c)>>], 0)

\* scipy.signal.butter(1, Wn, btype="low", analog=False) with Wn = num/den:
\* the critical frequency must satisfy 0 < Wn < 1; the order-1 digital
\* low-pass is b = [k/(1+k), k/(1+k)], a = [1, (k-1)/(k+1)], k = tan(pi*Wn/2)
butter(num, den) ==
    LET pos == (num > 0 /\ den > 0) \/ (num < 0 /\ den < 0)
        lt1 == IF den > 0 THEN num < den ELSE num > den
        s   == np_sin(num, 4 * den)
        c   == np_cos(num, 4 * den)
    IN  IF ~(pos /\ lt1) THEN Raise("ValueError", "butter", 0)
        ELSE Ok([b |-> <<(Scale * s) \div (s + c), (Scale * s) \div (s + c)>>,
                 a |-> <<Scale, (Scale * (s - c)) \div (s + c)>>], 0)

\* a filter that returns only the samples that have a predecessor
lfilter_valid(b, a, x) ==
    [n \in 1..(Len(x) - 1) |->
        << (b[1] * x[n + 1][1] + b[2] * x[n][1]) \div a[1],
           (b[1] * x[n + 1][2] + b[2] * x[n][2]) \div a[1] >>]

\* scipy.signal.lfilter(b, a, x): y[n] = b0*x[n] + b1*x[n-1] - a1*y[n-1]
lfilter(b, a, x) ==
    LET xs(n) == IF n = 0 THEN <<0, 0>> ELSE x[n]
        y[n \in 0..Len(x)] ==
            IF n = 0 THEN <<0, 0>>
            ELSE << (b[1] * xs(n)[1] + b[2] * xs(n - 1)[1] - a[2] * y[n - 1][1]) \div a[1],
                    (b[1] * xs(n)[2] + b[2] * xs(n - 1)[2] - a[2] * y[n - 1][2]) \div a[1] >>
    IN  [n \in 1..Len(x) |-> y[n]]

np_real(x) == [i \in 1..Len(x) |-> x[i][1]]

demodulate_signal(modulated, carrier, rate) ==
    LET f  == ResolveFreq(carrier)
        n  == Len(modulated)
        \* np.arange(n) / 0 only warns and yields nan/inf; the call then
        \* raises at 2 * value / sampling_rate, so these are never returned
        c1 == IF rate = 0 THEN Zeros(n) ELSE carrier_signal_1(f.val, n, rate)
        c2 == IF rate = 0 THEN [i \in 1..n |-> <<0, 0>>]
              ELSE carrier_signal_2(f.val, n, rate)
        d1 == [i \in 1..n |-> MixReal(modulated[i], c1[i])]
        d2 == [i \in 1..n |-> MixSample(modulated[i], c2[i])]
        ba == butter(2 * carrier.value, rate)
    IN  IF ~f.ok THEN f
        ELSE IF rate = 0 THEN Raise("ZeroDivisionError", "cutoff", f.val)
        ELSE IF ~ba.ok THEN Raise(ba.err, ba.at, f.val)
        ELSE Ok(<<np_real(lfilter(ba.val.b, ba.val.a, d1)),
                  np_real(lfilter(ba.val.b, ba.val.a, d2))>>, f.val)

(***************************************************************************)
(* The pipeline: main() for two AudioFiles, and the same calls made        *)
(* directly on plain lists.                                                *)
(***************************************************************************)
Init ==
    /\ pc = "start"
    /\ audio_file1 = [isList |-> TRUE, data |-> <<>>]
    /\ audio_file2 = [isList |-> TRUE, data |-> <<>>]
    /\ in1 = <<>>
    /\ in2 = <<>>
    /\ aligned = FALSE
    /\ unit_in = <<>>
    /\ carrier_freq = NoCarrier
    /\ modulated_signal = NoResult
    /\ sampling_rate = 0
    /\ demodulated = NoResult
    /\ error = NoResult

\* The two signals are supplied: as two AudioFiles (validated), which is
\* what main() does, or as two plain lists, which is what a direct caller
\* of the three functions may pass
Load ==
    /\ pc = "start"
    /\ \E isList \in BOOLEAN, d1 \in Datas, d2 \in Datas :
         LET r1 == MakeSignal(isList, d1)
             r2 == MakeSignal(isList, d2)
         IN  /\ in1' = d1
             /\ in2' = d2
             /\ IF r1.ok /\ r2.ok
                THEN /\ audio_file1' = r1.val
                     /\ audio_file2' = r2.val
                     /\ pc' = "loaded"
                     /\ error' = error
                ELSE /\ UNCHANGED <<audio_file1, audio_file2>>
                     /\ pc' = "failed"
                     /\ error' = IF r1.ok THEN r2 ELSE r1
    /\ UNCHANGED <<aligned, unit_in, carrier_freq, modulated_signal,
                   sampling_rate, demodulated>>

\* "Upsample the shorter signal"
Align ==
    /\ pc = "loaded"
    /\ ~aligned
    /\ aligned' = TRUE
    /\ LET la == Len(audio_file1.data)
           lb == Len(audio_file2.data)
           u1 == upsample_signal(audio_file1, lb)
           u2 == upsample_signal(audio_file2, la)
       IN  IF la < lb
           THEN /\ audio_file1' = [audio_file1 EXCEPT !.data = u1.val]
                /\ audio_file2' = audio_file2
           ELSE IF lb < la
           THEN /\ audio_file2' = [audio_file2 EXCEPT !.data = u2.val]
                /\ audio_file1' = audio_file1
           ELSE UNCHANGED <<audio_file1, audio_file2>>
    /\ UNCHANGED <<pc, in1, in2, unit_in, carrier_freq, modulated_signal,
                   sampling_rate, demodulated, error>>

\* "Get carrier frequency and unit"
MakeCarrier ==
    /\ pc = "loaded"
    /\ \E value \in CarrierValues, unit \in Units :
         LET r == CarrierFrequency(value, unit)
         IN  /\ unit_in' = unit
             /\ IF r.ok
                THEN /\ carrier_freq' = r.val
                     /\ pc' = "carrier"
                     /\ error' = error
                ELSE /\ carrier_freq' = carrier_freq
                     /\ pc' = "failed"
                     /\ error' = r
    /\ UNCHANGED <<audio_file1, audio_file2, in1, in2, aligned,
                   modulated_signal, sampling_rate, demodulated>>

\* "Perform QAM modulation"
Modulate ==
    /\ pc = "carrier"
    /\ LET r == qam_modulation(audio_file1, audio_file2, carrier_freq)
       IN  /\ modulated_signal' = r
           /\ pc' = IF r.ok THEN "modulated" ELSE "failed"
           /\ error' = IF r.ok THEN error ELSE r
    /\ UNCHANGED <<audio_file1, audio_file2, in1, in2, aligned, unit_in,
                   carrier_freq, sampling_rate, demodulated>>

\* "Demodulate the modulated signal"
Demodulate ==
    /\ pc = "modulated"
    /\ \E rate \in Rates :
         LET r == demodulate_signal(modulated_signal.val, carrier_freq, rate)
         IN  /\ sampling_rate' = rate
             /\ demodulated' = r
             /\ pc' = IF r.ok THEN "demodulated" ELSE "failed"
             /\ error' = IF r.ok THEN error ELSE r
    /\ UNCHANGED <<audio_file1, audio_file2, in1, in2, aligned, unit_in,
                   carrier_freq, modulated_signal>>

Next == Load \/ Align \/ MakeCarrier \/ Modulate \/ Demodulate

Spec == Init /\ [][Next]_vars

(***************************************************************************)
(* Properties                                                              *)
(***************************************************************************)
Called(result) == result # NoResult

Max(a, b) == IF a >= b THEN a ELSE b

la == Len(in1)

lb == Len(in2)

KhzSpellings == { <<a, b, c>> : a \in {"k", "K"}, b \in {"h", "H"}, c \in {"z", "Z"} }

MhzSpellings == { <<a, b, c>> : a \in {"m", "M"}, b \in {"h", "H"}, c \in {"z", "Z"} }

\* the carrier frequency in hertz, from the unit as it was given
Hertz == IF unit_in \in KhzSpellings THEN carrier_freq.value * 1000
         ELSE carrier_freq.value * 1000000

\* C1: after alignment of two non-empty signals a, b with la <= lb, both
\* signals have length lb, the first is a followed by exactly lb - la zero
\* samples and the second is b unchanged.
C1_AlignPadsShorter ==
    (aligned /\ in1 # <<>> /\ in2 # <<>> /\ la <= lb) =>
        /\ Len(audio_file1.data) = lb
        /\ Len(audio_file2.data) = lb
        /\ \A i \in 1..lb : audio_file1.data[i] = IF i <= la THEN in1[i] ELSE 0
        /\ audio_file2.data = in2

C1_Witness ==
    /\ aligned
    /\ in1 = <<1, 1>>
    /\ in2 = <<1, 0, 1>>
    /\ audio_file1.data = <<1, 1, 0>>
    /\ audio_file2.data = <<1, 0, 1>>

\* C3: for equal-length signals s1, s2 of length N and every carrier that was
\* constructed, modulate returns N complex samples, sample i (from 0) being
\* s1[i]*cos(2*pi*f*i/N) + s2[i]*(-j*sin(2*pi*f*i/N)) with f in hertz: the
\* real part is s1[i]*cos(..) and the imaginary part is -s2[i]*sin(..).
C3_ModulatedSamples ==
    (Called(modulated_signal) /\ Len(audio_file1.data) = Len(audio_file2.data)) =>
        LET N  == Len(audio_file1.data)
            s1 == audio_file1.data
            s2 == audio_file2.data
        IN  /\ modulated_signal.ok
            /\ Len(modulated_signal.val) = N
            /\ \A i \in 1..N :
                 /\ modulated_signal.val[i][1] = s1[i] * np_cos(Hertz * (i - 1), N)
                 /\ modulated_signal.val[i][2] = 0 - s2[i] * np_sin(Hertz * (i - 1), N)

C3_Witness ==
    /\ pc = "modulated"
    /\ audio_file1.data = <<1, 1, 0>>
    /\ audio_file2.data = <<0, 1, 1>>
    /\ carrier_freq = [value |-> 1, unit |-> khz]
    /\ modulated_signal.val[2][1] < 0
    /\ modulated_signal.val[2][2] < 0
    /\ modulated_signal.val[3][1] = 0
    /\ modulated_signal.val[3][2] > 0

\* C5: for a positive sampling rate, demodulate fails in the filter design
\* whenever the carrier value is >= samplingRate/2, and more generally
\* whenever the normalized cutoff 2*value/samplingRate lies outside (0, 1);
\* no output pair is returned.
C5_UnstableCutoffFails ==
    LET v       == carrier_freq.value
        outside == \/ v * sampling_rate <= 0
                   \/ (sampling_rate > 0 /\ 2 * v >= sampling_rate)
                   \/ (sampling_rate < 0 /\ 2 * v <= sampling_rate)
    IN  /\ (Called(demodulated) /\ sampling_rate > 0 /\ 2 * v >= sampling_rate) =>
              /\ ~demodulated.ok
              /\ demodulated.err = "ValueError"
              /\ demodulated.at = "butter"
              /\ demodulated.val = <<>>
              /\ pc = "failed"
        /\ (Called(demodulated) /\ sampling_rate # 0 /\ outside) =>
              /\ ~demodulated.ok
              /\ demodulated.at = "butter"
              /\ demodulated.val = <<>>

C5_Witness ==
    /\ Called(demodulated)
    /\ carrier_freq.value = 1
    /\ sampling_rate = 2
    /\ Len(modulated_signal.val) = 3
    /\ demodulated.at = "butter"

\* C9: a unit is accepted exactly when it spells kHz or MHz in some letter
\* case, any other unit is rejected with an error, and for every accepted
\* carrier both the modulator and the demodulator resolve the frequency to
\* value*1e3 hertz (kilohertz) or value*1e6 hertz (megahertz).
C9_UnitResolution ==
    /\ (unit_in # <<>>) =>
          /\ (carrier_freq # NoCarrier) <=> (unit_in \in KhzSpellings \cup MhzSpellings)
          /\ (unit_in \notin KhzSpellings \cup MhzSpellings) =>
                /\ pc = "failed"
                /\ error.err = "ValueError"
                /\ ~Called(modulated_signal)
    /\ Called(modulated_signal) => modulated_signal.freq = Hertz
    /\ Called(demodulated) => demodulated.freq = Hertz

C9_Witness ==
    /\ unit_in = <<"K", "H", "Z">>
    /\ carrier_freq.value = 1
    /\ modulated_signal.ok
    /\ modulated_signal.freq = 1000
    /\ demodulated.ok
    /\ demodulated.freq = 1000

\* C10: when two non-empty signals went through alignment, modulation and
\* demodulation without a failure, the aligned signals, the modulated signal
\* and both demodulated sequences have length max(la, lb); and alignment of
\* two signals of equal length leaves both unchanged.
C10_LengthPreserved ==
    /\ (pc = "demodulated" /\ aligned /\ in1 # <<>> /\ in2 # <<>>) =>
          /\ Len(audio_file1.data) = Max(la, lb)
          /\ Len(audio_file2.data) = Max(la, lb)
          /\ Len(modulated_signal.val) = Max(la, lb)
          /\ Len(demodulated.val) = 2
          /\ Len(demodulated.val[1]) = Max(la, lb)
          /\ Len(demodulated.val[2]) = Max(la, lb)
    /\ (aligned /\ in1 # <<>> /\ in2 # <<>> /\ la = lb) =>
          /\ audio_file1.data = in1
          /\ audio_file2.data = in2

C10_Witness ==
    /\ pc = "demodulated"
    /\ aligned
    /\ la = 1
    /\ lb = 3
    /\ Len(modulated_signal.val) = 3
    /\ Len(demodulated.val[1]) = 3
    /\ Len(demodulated.val[2]) = 3

\* C4: modulate fails whenever s1 and s2 differ in length, for every pair of
\* lengths (also when one of them is 1), and produces no modulated signal.
\* Stated for non-empty signals and a carrier of positive magnitude, so that
\* the length mismatch is the only thing wrong with the call.
C4_LengthMismatchFails ==
    (/\ Called(modulated_signal)
     /\ audio_file1.data # <<>>
     /\ audio_file2.data # <<>>
     /\ carrier_freq.value > 0
     /\ Len(audio_file1.data) # Len(audio_file2.data)) =>
        /\ ~modulated_signal.ok
        /\ modulated_signal.val = <<>>

\* C6: alignment fails if either input sequence is empty, and never returns
\* a padded result for an empty input.
C6_EmptyInputFails ==
    (in1 = <<>> \/ in2 = <<>>) => ~aligned

\* C7: modulate fails whenever the carrier magnitude is non-positive, and
\* such a carrier never yields a modulated signal.  Stated for non-empty
\* signals of equal length, so that the carrier is the only thing wrong.
C7_NonPositiveCarrierFails ==
    (/\ Called(modulated_signal)
     /\ audio_file1.data # <<>>
     /\ Len(audio_file1.data) = Len(audio_file2.data)
     /\ carrier_freq.value <= 0) =>
        /\ ~modulated_signal.ok
        /\ modulated_signal.val = <<>>

\* C8: demodulate fails if the modulated sequence is empty or the sampling
\* rate is <= 0, and the error is raised before any mixing or filtering
\* (so not by the cutoff computation or the filter design).  Stated for a
\* carrier of positive magnitude.
C8_InvalidDemodInputFails ==
    (/\ Called(demodulated)
     /\ carrier_freq.value > 0
     /\ (modulated_signal.val = <<>> \/ sampling_rate <= 0)) =>
        /\ ~demodulated.ok
        /\ demodulated.at \notin {"butter", "cutoff"}

====
